---- MODULE Spec2Model ----
(***************************************************************************)
(* The selection ledger of fts-sports-trading-server: creation, result     *)
(* settlement (single edit and CSV batch), deletion and the running        *)
(* totals kept on every row.                                               *)
(*                                                                         *)
(* The repository holds two versions of the selection controller:          *)
(*   "P14"  src/unnamed/part_014                                           *)
(*   "SC"   src/controllers/selectionController.js                         *)
(* createSelection, createBulkSelections, uploadSelectionsFromCSV,         *)
(* updateSelection, deleteSelection, deleteSelections and                  *)
(* markSelectionsViewed are textually the same in both; calculateWinPL,    *)
(* uploadResultsFromCSV and updateSelectionResults differ.  The variable   *)
(* `variant` fixes which version a behaviour runs.                         *)
(*                                                                         *)
(* Money is kept in hundredths of a point: 0.98 is 98, a price of 2.0 is   *)
(* 200, and 1 - winBsp is 100 - winBsp.                                    *)
(***************************************************************************)
EXTENDS Integers, Sequences, FiniteSets, TLC

VARIABLES variant, ledger, nextId, retired, lastOp, ops, track, ghost, shadow, calc,
          report, conc

vars == <<variant, ledger, nextId, retired, lastOp, ops, track, ghost, shadow, calc,
          report, conc>>

\* ------------------------------------------------------------------ bounds
\* Selections ever created in one behaviour (ids are never reused).
MaxRows == 2
\* Requests handled in one behaviour.
MaxOps == 4
\* Data rows of one bulk request / one CSV file.
MaxBatch == 2

\* ------------------------------------------------------- values of the code
\* A path the document does not hold (JavaScript undefined).
Undef == -9999
\* JavaScript null.
Null == -9998
\* JavaScript NaN (1 - undefined).
NaN == -9997

Variants == {"P14", "SC"}
Systems == {1, 2}
\* uploadResultsFromCSV of SC runs the place market for the system named "System 1".
System1 == 1
Dates == {"2025-12-10", "2025-12-11"}
Times == {"14:30"}
Horses == {"Dancer"}

Present(x) == x # Undef /\ x # Null
\* the JavaScript idiom  x || 0  on a number, null or undefined
OrZero(x) == IF Present(x) THEN x ELSE 0

\* 1 - bsp in JavaScript arithmetic: null counts as 0, undefined gives NaN
OneMinus(bsp) == IF bsp = Undef \/ bsp = NaN THEN NaN ELSE 100 - OrZero(bsp)

RECURSIVE Sum(_, _)
Sum(f, S) ==
  IF S = {} THEN 0
  ELSE LET i == CHOOSE x \in S : TRUE IN f[i] + Sum(f, S \ {i})

\* ----------------------------------------------------------- P/L calculator
ToUpper(r) == IF r = "won" THEN "WON" ELSE r

calculateWinPL_P14(result, winBsp) ==
  LET upperResult == ToUpper(result) IN
  IF upperResult = "WON" THEN OneMinus(winBsp)
  ELSE IF upperResult = "LOST" THEN 98
  ELSE IF upperResult \in {"NR", "VOID", "CANCELLED"} THEN 0
  ELSE 0

calculateWinPL_SC(result, winBsp) ==
  LET upperResult == ToUpper(result) IN
  IF upperResult = "WON" THEN OneMinus(winBsp)
  ELSE IF upperResult \in {"LOST", "PLACED"} THEN 98
  ELSE 0

calculateWinPL(v, result, winBsp) ==
  IF v = "P14" THEN calculateWinPL_P14(result, winBsp)
  ELSE calculateWinPL_SC(result, winBsp)

calculatePlacePL(result, placeBsp) ==
  LET upperResult == ToUpper(result) IN
  IF upperResult = "WON"
  THEN IF placeBsp # Null /\ placeBsp # Undef THEN OneMinus(placeBsp) ELSE 100
  ELSE IF upperResult = "PLACED" THEN OneMinus(placeBsp)
  ELSE 98

\* ------------------------------------------------------------- ledger store
\* A ledger is a function from selection ids to rows.
NewRow(systemId, rowOrder, dateISO, time, horse) ==
  [systemId |-> systemId, rowOrder |-> rowOrder, dateISO |-> dateISO,
   time |-> time, horse |-> horse,
   hasResult |-> FALSE, result |-> "",
   winBsp |-> Undef, winPL |-> Undef, runningWinPL |-> Undef,
   placeBsp |-> Undef, placePL |-> Undef, runningPlacePL |-> Undef]

EmptyLedger == [i \in {} |-> NewRow(1, 1, "2025-12-10", "14:30", "Dancer")]

\* a find that leaves the `{ systemId }` filter out, then the filter of every find
SysIds_anySystem(L, s) == DOMAIN L

SysIds(L, s) == {i \in DOMAIN L : L[i].systemId = s}

Remove(L, D) == [i \in DOMAIN L \ D |-> L[i]]

\* SystemSelection.findOne({ systemId }).sort({ rowOrder: -1 })
lastSelection(L, s) ==
  IF SysIds(L, s) = {} THEN Undef
  ELSE CHOOSE i \in SysIds(L, s) :
         \A j \in SysIds(L, s) : L[j].rowOrder < L[i].rowOrder
                                 \/ (L[j].rowOrder = L[i].rowOrder /\ j >= i)

\* .find(...).sort({ rowOrder: 1 }): the ids of S in ascending rowOrder
RECURSIVE SortByRowOrder(_, _)
SortByRowOrder(L, S) ==
  IF S = {} THEN <<>>
  ELSE LET i == CHOOSE x \in S :
                  \A y \in S : L[x].rowOrder < L[y].rowOrder
                               \/ (L[x].rowOrder = L[y].rowOrder /\ x <= y)
       IN <<i>> \o SortByRowOrder(L, S \ {i})

\* ------------------------------------------------------------------ creation
\* rowOrder of createSelection: lastSelection && lastSelection.rowOrder !== null
\*   ? lastSelection.rowOrder + 1 : 1
nextRowOrder(L, s) ==
  LET last == lastSelection(L, s) IN
  IF last # Undef /\ L[last].rowOrder # Null THEN L[last].rowOrder + 1 ELSE 1

\* SystemSelection.create: the schema casts `date`; isoToDate of a string that
\* is no date is an Invalid Date, the cast fails and nothing is stored.
create(L, id, systemId, rowOrder, dateISO, time, horse, dateOk) ==
  IF dateOk
  THEN [i \in DOMAIN L \cup {id} |->
          IF i = id THEN NewRow(systemId, rowOrder, dateISO, time, horse) ELSE L[i]]
  ELSE L

createSelection(L, id, systemId, dateISO, time, horse, dateOk) ==
  create(L, id, systemId, nextRowOrder(L, systemId), dateISO, time, horse, dateOk)

\* One data row of a bulk request or of a selections CSV.
\* dateOk: the row's date parses; a row whose date does not is rejected by create.
BatchItems ==
  [systemId : Systems, dateISO : Dates, time : Times, horse : Horses, dateOk : {TRUE}]
  \cup {[systemId |-> s, dateISO |-> "2025-12-10", time |-> "14:30",
          horse |-> "Dancer", dateOk |-> FALSE] : s \in Systems}

\* createBulkSelections: systemRowOrders caches, per system, the last rowOrder
\* handed out; an entry is fetched when it is missing or 0.
RECURSIVE createBulkLoop(_, _, _, _, _)
createBulkLoop(L, items, k, id, systemRowOrders) ==
  IF k > Len(items) THEN [L |-> L, nextId |-> id]
  ELSE
    LET it == items[k]
        s == it.systemId
        last == lastSelection(L, s)
        fetched == IF systemRowOrders[s] = 0
                   THEN IF last # Undef /\ L[last].rowOrder # Null
                        THEN L[last].rowOrder ELSE 0
                   ELSE systemRowOrders[s]
        rowOrder == fetched + 1
        L2 == create(L, id, s, rowOrder, it.dateISO, it.time, it.horse, it.dateOk)
    IN createBulkLoop(L2, items, k + 1, IF it.dateOk THEN id + 1 ELSE id,
                      [systemRowOrders EXCEPT ![s] = rowOrder])

createBulkSelections(L, items, id) ==
  createBulkLoop(L, items, 1, id, [s \in Systems |-> 0])

\* uploadSelectionsFromCSV: one system, currentRowOrder read once before the loop
\* and incremented before each create.
RECURSIVE uploadSelectionsLoop(_, _, _, _, _, _)
uploadSelectionsLoop(L, systemId, items, k, id, currentRowOrder) ==
  IF k > Len(items) THEN [L |-> L, nextId |-> id]
  ELSE
    LET it == items[k]
        rowOrder == currentRowOrder + 1
        L2 == create(L, id, systemId, rowOrder, it.dateISO, it.time, it.horse,
                     it.dateOk)
    IN uploadSelectionsLoop(L2, systemId, items, k + 1,
                            IF it.dateOk THEN id + 1 ELSE id, rowOrder)

uploadSelectionsFromCSV(L, systemId, items, id) ==
  LET last == lastSelection(L, systemId)
      currentRowOrder == IF last # Undef /\ L[last].rowOrder # Null
                         THEN L[last].rowOrder ELSE 0
  IN uploadSelectionsLoop(L, systemId, items, 1, id, currentRowOrder)

\* ------------------------------------------------- running-total recomputation
\* SystemSelection.find({ systemId, rowOrder: { $lte: ro }, placePL: { $ne: null } })
\* as the suffix walks issue it: `ro` is subsequent.rowOrder of a document fetched
\* with .select("_id winPL placePL"), so it is undefined and the filter matches
\* no row that holds a rowOrder.
allPreviousWithPlace(L, s, ro) ==
  {i \in SysIds(L, s) : ro # Undef /\ L[i].rowOrder <= ro /\ Present(L[i].placePL)}

\* The loop over subsequentSelections of deleteSelection and of
\* updateSelectionResults (SC).  `snap` is the ledger as the find returned it,
\* `seq` the ids in ascending rowOrder; each pass adds the row's own winPL and
\* placePL to the accumulators and writes the running totals.
RECURSIVE subsequentLoop(_, _, _, _, _, _, _)
subsequentLoop(L, snap, seq, k, currentRunningWinPL, currentRunningPlacePL, place) ==
  IF k > Len(seq) THEN L
  ELSE
    LET id == seq[k]
        subsequent == [snap[id] EXCEPT !.rowOrder = Undef]
        win == IF Present(subsequent.winPL)
               THEN currentRunningWinPL + subsequent.winPL
               ELSE currentRunningWinPL
        plc == IF place /\ Present(subsequent.placePL)
               THEN IF currentRunningPlacePL = Null
                    THEN LET prev == allPreviousWithPlace(L, subsequent.systemId,
                                                          subsequent.rowOrder)
                         IN Sum([i \in prev |-> OrZero(L[i].placePL)], prev)
                    ELSE currentRunningPlacePL + subsequent.placePL
               ELSE currentRunningPlacePL
        L2 == [L EXCEPT ![id].runningWinPL = win,
                        ![id].runningPlacePL =
                          IF place /\ plc # Null THEN plc ELSE @]
    IN subsequentLoop(L2, snap, seq, k + 1, win, plc, place)

\* ------------------------------------------------------------------ deletion
\* a delete that recomputes the later rows whether or not the row had a result,
\* then deleteSelection as written
deleteSelection_alwaysRecompute(L, id) ==
  IF id \notin DOMAIN L THEN L
  ELSE
    LET selection == L[id]
        currentRowOrder == selection.rowOrder
        hadResults == selection.hasResult
        deletedPlacePL == selection.placePL
        L1 == Remove(L, {id})
    IN
    IF currentRowOrder # Null /\ currentRowOrder # Undef
    THEN
      LET sys == SysIds(L1, selection.systemId)
          subsequentSelections ==
            SortByRowOrder(L1, {i \in sys : L1[i].rowOrder > currentRowOrder})
          previousSelections == {i \in sys : L1[i].rowOrder < currentRowOrder}
          currentRunningWinPL ==
            Sum([i \in previousSelections |-> OrZero(L1[i].winPL)], previousSelections)
          withPlace == {i \in previousSelections : Present(L1[i].placePL)}
          previousPlacePL == Sum([i \in withPlace |-> OrZero(L1[i].placePL)], withPlace)
          currentRunningPlacePL ==
            IF previousPlacePL > 0 \/ deletedPlacePL # Null
            THEN previousPlacePL ELSE Null
      IN subsequentLoop(L1, L1, subsequentSelections, 1, currentRunningWinPL,
                        currentRunningPlacePL, TRUE)
    ELSE L1

deleteSelection(L, id) ==
  IF id \notin DOMAIN L THEN L
  ELSE
    LET selection == L[id]
        currentRowOrder == selection.rowOrder
        hadResults == selection.hasResult
        deletedPlacePL == selection.placePL
        L1 == Remove(L, {id})
    IN
    IF hadResults /\ currentRowOrder # Null /\ currentRowOrder # Undef
    THEN
      LET sys == SysIds(L1, selection.systemId)
          subsequentSelections ==
            SortByRowOrder(L1, {i \in sys : L1[i].rowOrder > currentRowOrder})
          previousSelections == {i \in sys : L1[i].rowOrder < currentRowOrder}
          currentRunningWinPL ==
            Sum([i \in previousSelections |-> OrZero(L1[i].winPL)], previousSelections)
          withPlace == {i \in previousSelections : Present(L1[i].placePL)}
          previousPlacePL == Sum([i \in withPlace |-> OrZero(L1[i].placePL)], withPlace)
          currentRunningPlacePL ==
            IF previousPlacePL > 0 \/ deletedPlacePL # Null
            THEN previousPlacePL ELSE Null
      IN subsequentLoop(L1, L1, subsequentSelections, 1, currentRunningWinPL,
                        currentRunningPlacePL, TRUE)
    ELSE L1

\* deleteSelections: deleteMany on the filter built from systemId and dateISO
\* (systemId Undef, dateISO "" when the query leaves one out); no running total
\* is touched.
deleteSelections(L, systemId, dateISO) ==
  Remove(L, {i \in DOMAIN L :
               /\ (systemId = Undef \/ L[i].systemId = systemId)
               /\ (dateISO = "" \/ L[i].dateISO = dateISO)})

\* --------------------------------------------------- single-row result edit
validResults == {"WON", "LOST", "NR", "VOID", "CANCELLED"}

\* rows of the selection's system with rowOrder <= selection.rowOrder || 0,
\* the selection itself left out
previousOf(L, id) ==
  {i \in SysIds(L, L[id].systemId) \ {id} : L[i].rowOrder <= OrZero(L[id].rowOrder)}

subsequentOf(L, id) ==
  SortByRowOrder(L, {i \in SysIds(L, L[id].systemId) :
                       L[i].rowOrder > L[id].rowOrder})

updateSelectionResults_P14(L, id, result, winBsp) ==
  IF id \notin DOMAIN L THEN L
  ELSE IF result = "" \/ (winBsp # Null /\ winBsp # Undef /\ winBsp # 0) THEN L
  ELSE
    LET upperResult == ToUpper(result) IN
    IF upperResult \notin validResults THEN L
    ELSE IF upperResult \in {"NR", "VOID", "CANCELLED"}
            /\ winBsp # 0 /\ winBsp # Null /\ winBsp # Undef THEN L
    ELSE
      LET winPL == calculateWinPL_P14(upperResult, winBsp)
          previousSelections == previousOf(L, id)
          runningWinPL ==
            Sum([i \in previousSelections |-> OrZero(L[i].winPL)], previousSelections)
            + winPL
          L1 == [L EXCEPT ![id].result = upperResult,
                          ![id].winBsp = IF winBsp = Undef THEN @ ELSE winBsp,
                          ![id].winPL = winPL,
                          ![id].runningWinPL = runningWinPL,
                          ![id].hasResult = TRUE]
      IN
      \* a NaN winPL fails the Number cast of findByIdAndUpdate: nothing is written
      IF winPL = NaN THEN L
      ELSE IF L1[id].rowOrder # Null /\ L1[id].rowOrder # Undef
      THEN subsequentLoop(L1, L1, subsequentOf(L1, id), 1, runningWinPL, Null, FALSE)
      ELSE L1

updateSelectionResults_SC(L, id, result, winBsp, placeBsp) ==
  IF id \notin DOMAIN L THEN L
  ELSE IF result = "" \/ winBsp = Undef THEN L
  ELSE
    LET winPL == calculateWinPL_SC(result, winBsp)
        placePL == IF placeBsp # Undef /\ placeBsp # Null
                   THEN calculatePlacePL(result, placeBsp)
                   ELSE IF ToUpper(result) = "LOST" THEN 98 ELSE Null
        previousSelections == previousOf(L, id)
        runningWinPL ==
          Sum([i \in previousSelections |-> OrZero(L[i].winPL)], previousSelections)
          + winPL
        runningPlacePL ==
          IF placePL # Null
          THEN Sum([i \in previousSelections |-> OrZero(L[i].placePL)],
                   previousSelections) + placePL
          ELSE Null
        L1 == [L EXCEPT ![id].result = ToUpper(result),
                        ![id].winBsp = winBsp,
                        ![id].winPL = winPL,
                        ![id].runningWinPL = runningWinPL,
                        ![id].hasResult = TRUE,
                        ![id].placeBsp = IF placeBsp # Undef THEN placeBsp ELSE @,
                        ![id].placePL = IF placePL # Null THEN placePL ELSE @,
                        ![id].runningPlacePL =
                          IF runningPlacePL # Null THEN runningPlacePL ELSE @]
    IN
    IF L1[id].rowOrder # Null /\ L1[id].rowOrder # Undef
    THEN subsequentLoop(L1, L1, subsequentOf(L1, id), 1, runningWinPL,
                        runningPlacePL, TRUE)
    ELSE L1

\* updateSelection writing the schema default of hasResult with the edit
updateSelection_resetsResult(L, id, dateISO, time, horse) ==
  IF id \notin DOMAIN L THEN L
  ELSE [L EXCEPT ![id].dateISO = IF dateISO # "" THEN dateISO ELSE @,
                 ![id].time = IF time # "" THEN time ELSE @,
                 ![id].horse = IF horse # "" THEN horse ELSE @,
                 ![id].hasResult = FALSE]

\* updateSelection: date, time and horse of the row; no result field.
updateSelection(L, id, dateISO, time, horse) ==
  IF id \notin DOMAIN L THEN L
  ELSE [L EXCEPT ![id].dateISO = IF dateISO # "" THEN dateISO ELSE @,
                 ![id].time = IF time # "" THEN time ELSE @,
                 ![id].horse = IF horse # "" THEN horse ELSE @]

\* ------------------------------------------------------ settlement feed batch
\* What one data row of the results CSV can say about a runner: the parsed
\* Betfair SP, Betfair Lay Return, Betfair Place SP and Place Lay Return
\* (Null when the cell is empty).
FeedOutcomes ==
  { [betfairSP |-> Null, betfairLayReturn |-> Null,
     betfairPlaceSP |-> Null, placeLayReturn |-> Null],
    [betfairSP |-> 200, betfairLayReturn |-> -100,
     betfairPlaceSP |-> 150, placeLayReturn |-> -50],
    [betfairSP |-> 200, betfairLayReturn |-> 98,
     betfairPlaceSP |-> 150, placeLayReturn |-> -50],
    [betfairSP |-> 200, betfairLayReturn |-> 98,
     betfairPlaceSP |-> Null, placeLayReturn |-> Null] }

FeedRows ==
  {[dateISO |-> d, time |-> t, horse |-> h, betfairSP |-> o.betfairSP,
    betfairLayReturn |-> o.betfairLayReturn, betfairPlaceSP |-> o.betfairPlaceSP,
    placeLayReturn |-> o.placeLayReturn] :
     d \in Dates, t \in Times, h \in Horses, o \in FeedOutcomes}

\* data rows that lack a required cell: one without its date, one without its
\* horse
BadRows ==
  { [dateISO |-> "", time |-> "14:30", horse |-> "Dancer", betfairSP |-> 200,
     betfairLayReturn |-> -100, betfairPlaceSP |-> 150, placeLayReturn |-> -50],
    [dateISO |-> "2025-12-10", time |-> "14:30", horse |-> "", betfairSP |-> 200,
     betfairLayReturn |-> -100, betfairPlaceSP |-> 150, placeLayReturn |-> -50] }

FeedRowsAll == FeedRows \cup BadRows

\* !dateOfRace || !time || !horse
isBadRow(row) == row.dateISO = "" \/ row.time = "" \/ row.horse = ""

\* row numbers that count the data rows from 1
rowErrors_fromOne(feed) == {k \in 1..Len(feed) : isBadRow(feed[k])}

\* errors.push({ row: i + 1, ... }): the line number of the data row, the header
\* being line 1
rowErrors(feed) == {k + 1 : k \in {j \in 1..Len(feed) : isBadRow(feed[j])}}

\* the header line of the CSV, as the set of its column names
RequiredColumns ==
  {"Date of Race", "Country", "Track", "Time", "Horse", "Betfair SP",
   "Betfair Lay Return", "Betfair Place SP", "Place Lay Return"}

Headers ==
  {RequiredColumns, RequiredColumns \ {"Horse"},
   RequiredColumns \ {"Place Lay Return"}}

\* a header check that forgets the last column
headerOK_lax(header) == (RequiredColumns \ {"Place Lay Return"}) \subseteq header

headerOK(header) == RequiredColumns \subseteq header

\* normalizeTime on the time strings of the model, as normalizeTimeChars computes
\* it: seconds cut by substring(0, 5), then the hour padded when two parts are
\* left ("9:30:00" is cut to "9:30:", which has three parts)
normalizeTime(timeStr) ==
  CASE timeStr = "14:30:00" -> "14:30"
    [] timeStr = "9:30" -> "09:30"
    [] timeStr = "9:30:00" -> "9:30:"
    [] OTHER -> timeStr

\* horse.toLowerCase().trim() on the horse names of the model
normalizedHorse(horse) ==
  CASE horse = "Dancer" -> "dancer"
    [] horse = "DANCER " -> "dancer"
    [] OTHER -> horse

\* a match key built from time and horse alone
matchKey_noDate(r) == <<normalizeTime(r.time), normalizedHorse(r.horse)>>

matchKey_P14(r) == <<r.dateISO, normalizeTime(r.time), normalizedHorse(r.horse)>>
matchKey_SC(r) == <<r.dateISO, r.time, r.horse>>

hasValid(sp) == sp # Null /\ sp # NaN /\ sp > 0

\* PHASE 1 of P14: the date of every row that has one
dateISOsOf(feed) ==
  {feed[k].dateISO : k \in {j \in 1..Len(feed) : feed[j].dateISO # ""}}

\* first pass of SC: the dates of the rows that pass the required-cell check
dateISOsOf_SC(feed) ==
  {feed[k].dateISO : k \in {j \in 1..Len(feed) : ~isBadRow(feed[j])}}

\* -- store failures during one results upload: the find of one system's
\* selections rejects (find), or the writes to some rows reject (lost)
NoFault == [find |-> 0, lost |-> {}]

Faults ==
  {NoFault}
  \cup {[find |-> s, lost |-> {}] : s \in Systems}
  \cup {[find |-> 0, lost |-> W] : W \in (SUBSET (1..MaxRows)) \ {{}}}

\* the part of a loop over seq that runs before an await on a row of S rejects
RECURSIVE TakeUntil(_, _)
TakeUntil(seq, S) ==
  IF seq = <<>> \/ Head(seq) \in S THEN <<>>
  ELSE <<Head(seq)>> \o TakeUntil(Tail(seq), S)

\* -- P14: match unresulted selections, then one recompute per system
\* allSelections of P14, in the order find returns them (insertion order)
allSelections_P14(L, feed) ==
  {i \in DOMAIN L : L[i].dateISO \in dateISOsOf(feed) /\ L[i].hasResult # TRUE}

\* selectionMap.set(matchKey, ...) in a loop: a later selection with the same key
\* replaces the earlier one
selectionMap(L, feed) ==
  LET all == allSelections_P14(L, feed) IN
  {i \in all : \A j \in all : matchKey_P14(L[j]) = matchKey_P14(L[i]) => j <= i}

entryOf(L, feed, key) ==
  LET hit == {i \in selectionMap(L, feed) : matchKey_P14(L[i]) = key} IN
  IF hit = {} THEN Undef ELSE CHOOSE i \in hit : TRUE

\* PHASE 4: the feed rows that produce an update, as indexes into the feed
acceptedRows_P14(L, feed) ==
  {k \in 1..Len(feed) :
     /\ ~isBadRow(feed[k])
     /\ entryOf(L, feed, matchKey_P14(feed[k])) # Undef
     /\ ~L[entryOf(L, feed, matchKey_P14(feed[k]))].hasResult
     /\ hasValid(feed[k].betfairSP)}

matched_P14(L, feed) ==
  {i \in selectionMap(L, feed) :
     \E k \in 1..Len(feed) :
       ~isBadRow(feed[k]) /\ matchKey_P14(feed[k]) = matchKey_P14(L[i])}

\* updatesMap.set(selectionId, update) over the updates in feed order: the update
\* of the last accepted feed row of a selection is the one applied
updateRowOf(L, feed, id) ==
  LET ks == {k \in acceptedRows_P14(L, feed) :
               entryOf(L, feed, matchKey_P14(feed[k])) = id}
  IN IF ks = {} THEN 0 ELSE CHOOSE k \in ks : \A j \in ks : j <= k

\* the sign of the lay return read the other way round, then as written
resultOf_P14_positiveWins(row) ==
  IF row.betfairLayReturn # Null /\ row.betfairLayReturn > 0 THEN "WON" ELSE "LOST"

resultOf_P14(row) ==
  IF row.betfairLayReturn # Null /\ row.betfairLayReturn < 0 THEN "WON" ELSE "LOST"

\* PHASE 6 for one system: the pass over allSystemSelections in rowOrder
RECURSIVE recomputeLoop(_, _, _, _, _, _, _)
recomputeLoop(L, snap, feed, seq, k, runningWinPL, hasEncounteredUpdate) ==
  IF k > Len(seq) THEN L
  ELSE
    LET id == seq[k]
        u == updateRowOf(snap, feed, id)
        result == resultOf_P14(feed[u])
        currentWinPL == IF u # 0
                        THEN calculateWinPL_P14(result, feed[u].betfairSP)
                        ELSE OrZero(snap[id].winPL)
        running == runningWinPL + currentWinPL
        L2 == IF u # 0
              THEN [L EXCEPT ![id].result = result,
                             ![id].hasResult = TRUE,
                             ![id].winBsp = feed[u].betfairSP,
                             ![id].winPL = currentWinPL,
                             ![id].runningWinPL = running]
              ELSE IF hasEncounteredUpdate
              THEN [L EXCEPT ![id].runningWinPL = running]
              ELSE L
    IN recomputeLoop(L2, snap, feed, seq, k + 1, running,
                     hasEncounteredUpdate \/ u # 0)

RECURSIVE recomputeSystems(_, _, _, _)
recomputeSystems(L, snap, feed, todo) ==
  IF todo = {} THEN L
  ELSE LET s == CHOOSE x \in todo : TRUE
           L2 == recomputeLoop(L, snap, feed,
                               SortByRowOrder(snap, SysIds(snap, s)), 1, 0, FALSE)
       IN recomputeSystems(L2, snap, feed, todo \ {s})

updatedIds_P14(L, feed) ==
  {entryOf(L, feed, matchKey_P14(feed[k])) : k \in acceptedRows_P14(L, feed)}

uploadResultsFromCSV_P14(L, feed) ==
  LET ids == updatedIds_P14(L, feed)
      unmatched == selectionMap(L, feed) \ matched_P14(L, feed)
  IN [L |-> recomputeSystems(L, L, feed, {L[i].systemId : i \in ids}),
      updated |-> ids, unmatched |-> unmatched]

\* the rows bulkOps holds an updateOne for: the updated rows and, in their
\* systems, every row after the first updated one
bulkIds(L, feed) ==
  LET ids == updatedIds_P14(L, feed) IN
  UNION {LET seq == SortByRowOrder(L, SysIds(L, s))
         IN {seq[k] : k \in {n \in 1..Len(seq) :
                                \E j \in 1..n : seq[j] \in ids}} :
         s \in {L[i].systemId : i \in ids}}

\* bulkWrite(bulkOps, { ordered: false }): every operation is attempted, the
\* ones on the rows of lost are rejected
bulkWrite(L, full, lost) ==
  [i \in DOMAIN L |-> IF i \in lost THEN L[i] ELSE full[i]]

\* a response that reports nothing, and the ledger left as it was
Fatal(L, status) ==
  [L |-> L, status |-> status, updated |-> {}, unmatched |-> {}, errors |-> {},
   selectionErrors |-> {}, failed |-> {}]

\* PHASE 5 to 8 of P14, given the outcome r of the matching and recompute and
\* the rows bulk that bulkOps writes
respond_P14(L, feed, fault, r, bulk) ==
  IF r.updated = {}
  THEN [Fatal(L, 200) EXCEPT !.unmatched = r.unmatched, !.errors = rowErrors(feed)]
  ELSE IF fault.find \in {L[i].systemId : i \in r.updated} THEN Fatal(L, 500)
  ELSE IF fault.lost \cap bulk # {}
  THEN Fatal(bulkWrite(L, r.L, fault.lost), 500)
  ELSE [Fatal(r.L, 200) EXCEPT !.updated = r.updated, !.unmatched = r.unmatched,
                               !.errors = rowErrors(feed)]

\* the whole handler of P14: the response and the ledger it leaves
uploadResultsRequest_P14(L, header, feed, fault) ==
  IF Len(feed) = 0 \/ ~headerOK(header) \/ dateISOsOf(feed) = {} THEN Fatal(L, 400)
  ELSE respond_P14(L, feed, fault, uploadResultsFromCSV_P14(L, feed),
                   bulkIds(L, feed))

\* -- SC: every selection of the feed's dates, settled one after the other
\* csvDataMap.set(matchKey, row) in feed order: the last row of a key is kept
csvRowOf(feed, key) ==
  LET ks == {k \in 1..Len(feed) :
               ~isBadRow(feed[k]) /\ matchKey_SC(feed[k]) = key}
  IN IF ks = {} THEN 0 ELSE CHOOSE k \in ks : \A j \in ks : j <= k

RECURSIVE idSeq(_)
idSeq(S) ==
  IF S = {} THEN <<>>
  ELSE LET i == CHOOSE x \in S : \A y \in S : x <= y IN <<i>> \o idSeq(S \ {i})

\* the body of the second pass for one selection with a matching CSV row
settleOne_SC(L, selection, id, csvRow, fault) ==
  LET isSystem1 == selection.systemId = System1
      hasValidBetfairSP == hasValid(csvRow.betfairSP)
      hasValidBetfairPlaceSP == hasValid(csvRow.betfairPlaceSP)
      result ==
        IF ~hasValidBetfairSP THEN "VOID"
        ELSE IF csvRow.betfairLayReturn # Null /\ csvRow.betfairLayReturn < 0
        THEN "WON"
        ELSE IF isSystem1 /\ csvRow.placeLayReturn # Null /\ csvRow.placeLayReturn < 0
        THEN "PLACED"
        ELSE "LOST"
      winPL == IF ~hasValidBetfairSP THEN 0
               ELSE calculateWinPL_SC(result, csvRow.betfairSP)
      placePL ==
        IF ~hasValidBetfairSP THEN (IF isSystem1 THEN 0 ELSE Null)
        ELSE IF isSystem1 /\ hasValidBetfairPlaceSP
        THEN calculatePlacePL(result, csvRow.betfairPlaceSP)
        ELSE Null
      previousSelections ==
        {i \in SysIds(L, selection.systemId) :
           L[i].rowOrder < OrZero(selection.rowOrder)}
      runningWinPL ==
        Sum([i \in previousSelections |-> OrZero(L[i].winPL)], previousSelections)
        + winPL
      runningPlacePL ==
        IF isSystem1 /\ placePL # Null
        THEN Sum([i \in previousSelections |-> OrZero(L[i].placePL)],
                 previousSelections) + placePL
        ELSE Null
      L1 == [L EXCEPT ![id].result = result,
                      ![id].hasResult = TRUE,
                      ![id].winBsp = IF hasValidBetfairSP THEN csvRow.betfairSP ELSE @,
                      ![id].winPL = winPL,
                      ![id].runningWinPL = runningWinPL,
                      ![id].placeBsp = IF isSystem1 /\ hasValidBetfairPlaceSP
                                       THEN csvRow.betfairPlaceSP ELSE @,
                      ![id].placePL = IF isSystem1 /\ placePL # Null
                                      THEN placePL ELSE @,
                      ![id].runningPlacePL = IF isSystem1 /\ placePL # Null
                                             THEN runningPlacePL ELSE @]
  IN
  \* a rejected find of previousSelections or a rejected findByIdAndUpdate of
  \* the selection is caught for this selection: nothing of it is written
  IF selection.systemId = fault.find \/ id \in fault.lost THEN L
  ELSE IF L1[id].rowOrder # Null /\ L1[id].rowOrder # Undef
  THEN subsequentLoop(L1, L1, TakeUntil(subsequentOf(L1, id), fault.lost), 1,
                      runningWinPL, runningPlacePL, isSystem1)
  ELSE L1

RECURSIVE secondPass_SC(_, _, _, _, _, _)
secondPass_SC(L, snap, feed, seq, k, fault) ==
  IF k > Len(seq) THEN L
  ELSE
    LET id == seq[k]
        c == csvRowOf(feed, matchKey_SC(snap[id]))
    IN secondPass_SC(IF c = 0 THEN L
                     ELSE settleOne_SC(L, snap[id], id, feed[c], fault),
                     snap, feed, seq, k + 1, fault)

allSelections_SC(L, feed) ==
  {i \in DOMAIN L : L[i].dateISO \in dateISOsOf_SC(feed)}

uploadResultsFromCSV_SC(L, feed) ==
  LET all == allSelections_SC(L, feed)
      hit == {i \in all : csvRowOf(feed, matchKey_SC(L[i])) # 0}
  IN [L |-> secondPass_SC(L, L, feed, idSeq(all), 1, NoFault),
      updated |-> hit, unmatched |-> all \ hit]

\* the response of SC, given the selections all that the find returned and the
\* ledger final that the second pass leaves
respond_SC(L, feed, fault, all, final) ==
  LET hit == {i \in all : csvRowOf(feed, matchKey_SC(L[i])) # 0}
      thrown == {i \in hit : L[i].systemId = fault.find \/ i \in fault.lost}
      cut == {i \in hit \ thrown :
                \E j \in fault.lost \cap DOMAIN L :
                  L[j].systemId = L[i].systemId /\ L[j].rowOrder > L[i].rowOrder}
  IN [L |-> final, status |-> 200, updated |-> hit \ thrown,
      unmatched |-> all \ hit, errors |-> rowErrors(feed),
      selectionErrors |-> thrown \cup cut, failed |-> {}]

\* the whole handler of SC: the response and the ledger it leaves
uploadResultsRequest_SC(L, header, feed, fault) ==
  IF Len(feed) = 0 \/ ~headerOK(header) THEN Fatal(L, 400)
  ELSE respond_SC(L, feed, fault, allSelections_SC(L, feed),
                  secondPass_SC(L, L, feed, idSeq(allSelections_SC(L, feed)), 1,
                                fault))

uploadResultsFromCSV(v, L, feed) ==
  IF v = "P14" THEN uploadResultsFromCSV_P14(L, feed)
  ELSE uploadResultsFromCSV_SC(L, feed)

uploadResultsRequest(v, L, header, feed, fault) ==
  IF v = "P14" THEN uploadResultsRequest_P14(L, header, feed, fault)
  ELSE uploadResultsRequest_SC(L, header, feed, fault)

\* ------------------------------------------------------------ state machine
\* Requests are handled one at a time: every action is one whole handler.
NoOp == "none"
NoCalc == [fn |-> "none", result |-> "", bsp |-> Undef, out |-> Undef]
\* no results upload answered yet; no concurrent requests in progress
NoReport == [status |-> 0]
NoConc == [phase |-> "none"]

SeqsUpTo(S, n) == UNION {[1..m -> S] : m \in 1..n}

ResultInputs == {"WON", "LOST", "PLACED", "VOID"}
WinBspInputs == {0, 200}
PlaceBspInputs == {Undef, 150}

Init ==
  /\ variant \in Variants
  /\ ledger = EmptyLedger
  /\ nextId = 1
  /\ retired = {}
  /\ lastOp = NoOp
  /\ ops = 0
  /\ track = FALSE
  /\ ghost = 0
  /\ shadow = EmptyLedger
  /\ calc = NoCalc
  /\ report = NoReport
  /\ conc = NoConc

Step == ops < MaxOps /\ ops' = ops + 1

\* the ghost ledger replays every request except those on the ghost row
Replay(L) == shadow' = IF track THEN L ELSE shadow

Gone(L, L2) == {<<L[i].systemId, L[i].rowOrder>> : i \in DOMAIN L \ DOMAIN L2}

CreateSelection ==
  /\ Step
  /\ nextId <= MaxRows
  /\ \E s \in Systems, d \in Dates, t \in Times, h \in Horses, g \in BOOLEAN :
       /\ g => (track /\ ghost = 0)
       /\ ledger' = createSelection(ledger, nextId, s, d, t, h, TRUE)
       /\ ghost' = IF g THEN nextId ELSE ghost
       /\ Replay(IF g THEN shadow
                 ELSE createSelection(shadow, nextId, s, d, t, h, TRUE))
       /\ lastOp' = "createSelection"
  /\ nextId' = nextId + 1
  /\ UNCHANGED <<variant, retired, track, calc, report, conc>>

CreateBulkSelections ==
  /\ Step
  /\ \E items \in SeqsUpTo(BatchItems, MaxBatch) :
    LET r == createBulkSelections(ledger, items, nextId) IN
    /\ r.nextId - 1 <= MaxRows
    /\ ledger' = r.L
    /\ nextId' = r.nextId
    /\ Replay(createBulkSelections(shadow, items, nextId).L)
    /\ lastOp' = "createBulkSelections"
    /\ UNCHANGED <<variant, retired, track, ghost, calc, report, conc>>

UploadSelectionsFromCSV ==
  /\ Step
  /\ \E s \in Systems, items \in SeqsUpTo(BatchItems, MaxBatch) :
    LET r == uploadSelectionsFromCSV(ledger, s, items, nextId) IN
    /\ \A k \in 1..Len(items) : items[k].systemId = s
    /\ r.nextId - 1 <= MaxRows
    /\ ledger' = r.L
    /\ nextId' = r.nextId
    /\ Replay(uploadSelectionsFromCSV(shadow, s, items, nextId).L)
    /\ lastOp' = "uploadSelectionsFromCSV"
    /\ UNCHANGED <<variant, retired, track, ghost, calc, report, conc>>

UpdateSelection ==
  /\ Step
  /\ \E id \in DOMAIN ledger, d \in Dates \cup {""}, h \in Horses \cup {""} :
    /\ ledger' = updateSelection(ledger, id, d, "", h)
    /\ Replay(updateSelection(shadow, id, d, "", h))
    /\ lastOp' = "updateSelection"
    /\ UNCHANGED <<variant, nextId, retired, track, ghost, calc, report, conc>>

UpdateSelectionResults ==
  /\ Step
  /\ \E id \in DOMAIN ledger, result \in ResultInputs, winBsp \in WinBspInputs,
     placeBsp \in PlaceBspInputs :
    /\ variant = "P14" => placeBsp = Undef
    /\ variant = "SC" => winBsp = 200
    /\ ledger' = IF variant = "P14"
                 THEN updateSelectionResults_P14(ledger, id, result, winBsp)
                 ELSE updateSelectionResults_SC(ledger, id, result, winBsp, placeBsp)
    /\ Replay(IF variant = "P14"
              THEN updateSelectionResults_P14(shadow, id, result, winBsp)
              ELSE updateSelectionResults_SC(shadow, id, result, winBsp, placeBsp))
    /\ lastOp' = "updateSelectionResults"
    /\ UNCHANGED <<variant, nextId, retired, track, ghost, calc, report, conc>>

UploadResultsFromCSV ==
  /\ Step
  /\ \E feed \in SeqsUpTo(FeedRows, MaxBatch) :
    LET r == uploadResultsFromCSV(variant, ledger, feed) IN
    /\ ledger' = r.L
    /\ Replay(uploadResultsFromCSV(variant, shadow, feed).L)
    /\ lastOp' = "uploadResultsFromCSV"
    /\ UNCHANGED <<variant, nextId, retired, track, ghost, calc, report, conc>>

DeleteSelection ==
  /\ Step
  /\ \E id \in DOMAIN ledger :
    /\ ledger' = deleteSelection(ledger, id)
    /\ Replay(deleteSelection(shadow, id))
    /\ retired' = retired \cup Gone(ledger, ledger')
    /\ lastOp' = "deleteSelection"
    /\ UNCHANGED <<variant, nextId, track, ghost, calc, report, conc>>

DeleteSelections ==
  /\ Step
  /\ \E s \in Systems \cup {Undef}, d \in Dates \cup {""} :
    /\ s # Undef \/ d # ""
    /\ ledger' = deleteSelections(ledger, s, d)
    /\ Replay(deleteSelections(shadow, s, d))
    /\ retired' = retired \cup Gone(ledger, ledger')
    /\ lastOp' = "deleteSelections"
    /\ UNCHANGED <<variant, nextId, track, ghost, calc, report, conc>>

\* markSelectionsViewed writes the isNew flag alone, which the ledger leaves out
MarkSelectionsViewed ==
  /\ Step
  /\ lastOp' = "markSelectionsViewed"
  /\ UNCHANGED <<variant, ledger, nextId, retired, track, ghost, shadow, calc, report, conc>>

Next ==
  \/ CreateSelection
  \/ CreateBulkSelections
  \/ UploadSelectionsFromCSV
  \/ UpdateSelection
  \/ UpdateSelectionResults
  \/ UploadResultsFromCSV
  \/ DeleteSelection
  \/ DeleteSelections
  \/ MarkSelectionsViewed

Spec == Init /\ [][Next]_vars

\* the behaviours of the controller of src/unnamed/part_014 alone
InitP14 == Init /\ variant = "P14"

SpecP14 == InitP14 /\ [][Next]_vars

\* --------------------------------------- one results upload and its response
\* A ledger is built by createSelection and settled by single-row result
\* edits; then one results upload is answered, whatever its header, its rows
\* and the store failures it meets, and its response is kept in report.
UploadResultsRequest ==
  /\ Step
  /\ \E header \in Headers, feed \in SeqsUpTo(FeedRowsAll, MaxBatch),
        fault \in Faults :
       /\ ~headerOK(header) => fault = NoFault
       /\ \E r \in {uploadResultsRequest(variant, ledger, header, feed, fault)} :
            /\ ledger' = r.L
            /\ report' = [header |-> header, feed |-> feed, fault |-> fault,
                          status |-> r.status, updated |-> r.updated,
                          unmatched |-> r.unmatched, errors |-> r.errors,
                          selectionErrors |-> r.selectionErrors,
                          failed |-> r.failed]
  /\ lastOp' = "uploadResultsFromCSV"
  /\ UNCHANGED <<variant, nextId, retired, track, ghost, shadow, calc, conc>>

NextUpload ==
  \/ report = NoReport /\ CreateSelection
  \/ report = NoReport /\ UpdateSelectionResults
  \/ report = NoReport /\ UploadResultsRequest

SpecUpload == Init /\ [][NextUpload]_vars

SpecUploadP14 == InitP14 /\ [][NextUpload]_vars

\* ------------------------------------------------- the P/L calculator alone
\* calculateWinPL and calculatePlacePL applied to one result and one price.
CalcResults == {"WON", "LOST", "PLACED", "NR", "VOID", "CANCELLED", "won"}
CalcBsps == {Undef, Null, 0, 150, 200, 300}

InitPL ==
  /\ variant \in Variants
  /\ ledger = EmptyLedger
  /\ nextId = 1
  /\ retired = {}
  /\ lastOp = NoOp
  /\ ops = 0
  /\ track = FALSE
  /\ ghost = 0
  /\ shadow = EmptyLedger
  /\ calc \in [fn : {"none"}, result : CalcResults, bsp : CalcBsps, out : {Undef}]
  /\ report = NoReport
  /\ conc = NoConc

CalcWin ==
  /\ calc.fn = "none"
  /\ calc' = [calc EXCEPT !.fn = "calculateWinPL",
                          !.out = calculateWinPL(variant, calc.result, calc.bsp)]
  /\ UNCHANGED <<variant, ledger, nextId, retired, lastOp, ops, track, ghost, shadow,
               report, conc>>

CalcPlace ==
  /\ calc.fn = "none"
  /\ calc' = [calc EXCEPT !.fn = "calculatePlacePL",
                          !.out = calculatePlacePL(calc.result, calc.bsp)]
  /\ UNCHANGED <<variant, ledger, nextId, retired, lastOp, ops, track, ghost, shadow,
               report, conc>>

NextPL ==
  \/ CalcWin
  \/ CalcPlace

SpecPL == InitPL /\ [][NextPL]_vars

\* C9: calculateWinPL returns 1 - winBsp for WON, 0.98 for LOST, 0.98 for PLACED
\* and 0 for NR, VOID and CANCELLED, for every lay price winBsp.
C9_WinFormula ==
  (calc.fn = "calculateWinPL" /\ Present(calc.bsp)) =>
    calc.out = CASE ToUpper(calc.result) = "WON" -> 100 - calc.bsp
                 [] ToUpper(calc.result) \in {"LOST", "PLACED"} -> 98
                 [] OTHER -> 0

\* C10: calculatePlacePL returns 1 - placeBsp for WON or PLACED with placeBsp
\* present, 1.0 for WON with placeBsp absent, 0.98 for LOST and 0 for NR, VOID
\* and CANCELLED.
C10_PlaceFormula ==
  (calc.fn = "calculatePlacePL"
   /\ (ToUpper(calc.result) = "PLACED" => Present(calc.bsp))) =>
    calc.out = CASE ToUpper(calc.result) \in {"WON", "PLACED"} /\ Present(calc.bsp)
                      -> 100 - calc.bsp
                 [] ToUpper(calc.result) = "WON" -> 100
                 [] ToUpper(calc.result) = "LOST" -> 98
                 [] OTHER -> 0

\* ------------------------------------------------------- ledger properties
\* the rows of r's system up to and including r in ledger order
UpTo(L, i) == {j \in SysIds(L, L[i].systemId) : L[j].rowOrder <= L[i].rowOrder}

\* C1: after any sequence of creations, settlements and deletions, runningWinPL
\* of a row is the sum of winPL over the rows of its system with rowOrder up to
\* its own, an unresulted row counting 0.  Stated on the rows that hold a
\* result; a running total that was never written reads as 0.
C1_PrefixSum ==
  \A i \in DOMAIN ledger :
    ledger[i].hasResult =>
      OrZero(ledger[i].runningWinPL)
        = Sum([j \in UpTo(ledger, i) |-> OrZero(ledger[j].winPL)], UpTo(ledger, i))

\* C2: runningPlacePL of a row is null exactly when no row of its system up to
\* it has a placePL, and is the sum of those placePL otherwise.  Stated on the
\* rows that hold a result.
C2_PlaceRunningTotal ==
  \A i \in DOMAIN ledger :
    ledger[i].hasResult =>
      LET withPlace == {j \in UpTo(ledger, i) : Present(ledger[j].placePL)} IN
      IF withPlace = {} THEN ~Present(ledger[i].runningPlacePL)
      ELSE ledger[i].runningPlacePL
             = Sum([j \in withPlace |-> ledger[j].placePL], withPlace)

\* C8: a selection that still exists and has hasResult = true keeps it in every
\* later state, whatever request is handled.
C8_HasResultMonotonic ==
  [][\A i \in DOMAIN ledger \cap DOMAIN ledger' :
       ledger[i].hasResult => ledger'[i].hasResult]_vars

\* a resulted row that has lived through an edit of its date or horse
C8_Witness ==
  /\ lastOp = "updateSelection"
  /\ \E i \in DOMAIN ledger : ledger[i].hasResult

\* C4: uploadResultsFromCSV run twice in a row with the same feed leaves the
\* ledger as one run leaves it, and the second run reports no selection updated.
C4_IdempotentSettlement ==
  \A feed \in SeqsUpTo(FeedRows, MaxBatch) :
    LET once == uploadResultsFromCSV(variant, ledger, feed)
        twice == uploadResultsFromCSV(variant, once.L, feed)
    IN twice.L = once.L /\ twice.updated = {}

\* C5: uploadResultsFromCSV never changes result, winBsp, winPL, placeBsp or
\* placePL of a selection that has hasResult = true when the batch starts.
C5_NoDoubleSettlement ==
  [][lastOp' = "uploadResultsFromCSV" =>
       \A i \in DOMAIN ledger :
         ledger[i].hasResult =>
           /\ i \in DOMAIN ledger'
           /\ ledger'[i].result = ledger[i].result
           /\ ledger'[i].winBsp = ledger[i].winBsp
           /\ ledger'[i].winPL = ledger[i].winPL
           /\ ledger'[i].placeBsp = ledger[i].placeBsp
           /\ ledger'[i].placePL = ledger[i].placePL]_vars

\* the largest rowOrder among the rows S of a ledger, 0 when there is none
MaxRowOrder(L, S) ==
  IF S = {} THEN 0
  ELSE LET m == CHOOSE x \in S : \A y \in S : L[y].rowOrder <= L[x].rowOrder
       IN L[m].rowOrder

\* C6: no two rows of a system share a rowOrder, and every created row receives
\* 1 + the largest rowOrder present in its system when it is created (1 when the
\* system has no rows).  Ids are handed out in creation order, so the rows
\* present when row i is created are the rows with a smaller id.
C6_UniqueAppend ==
  [][/\ \A i, j \in DOMAIN ledger' :
          (i # j /\ ledger'[i].systemId = ledger'[j].systemId)
            => ledger'[i].rowOrder # ledger'[j].rowOrder
     /\ \A i \in DOMAIN ledger' \ DOMAIN ledger :
          ledger'[i].rowOrder
            = 1 + MaxRowOrder(ledger', {j \in SysIds(ledger', ledger'[i].systemId) :
                                          j < i})]_vars

\* C7: a rowOrder that a deleted row of a system held is never given to a
\* selection created later in that system.
C7_NeverReused ==
  [][\A i \in DOMAIN ledger' \ DOMAIN ledger :
       <<ledger'[i].systemId, ledger'[i].rowOrder>> \notin retired]_vars

\* --------------------------------------------- the ledger beside its shadow
\* Every behaviour of SpecShadow carries, beside the ledger, the ledger that
\* the same requests build when one designated row (ghost) is never inserted.
InitShadow ==
  /\ variant \in Variants
  /\ ledger = EmptyLedger
  /\ nextId = 1
  /\ retired = {}
  /\ lastOp = NoOp
  /\ ops = 0
  /\ track = TRUE
  /\ ghost = 0
  /\ shadow = EmptyLedger
  /\ calc = NoCalc
  /\ report = NoReport
  /\ conc = NoConc

\* the requests that build, settle and delete single rows
NextShadow ==
  \/ CreateSelection
  \/ UpdateSelectionResults
  \/ UploadResultsFromCSV
  \/ DeleteSelection

SpecShadow == InitShadow /\ [][NextShadow]_vars

\* a stored number, or null for a path that holds none
Val(x) == IF Present(x) THEN x ELSE Null

\* C3: after deleteSelection of a row d with hasResult = true every remaining
\* row has the winPL, runningWinPL, placePL and runningPlacePL it has in the
\* ledger built by the same requests with d never inserted, and keeps its
\* rowOrder.  Stated for the deletions before which the other rows hold the
\* same results in both ledgers; a runningWinPL never written reads as 0.
C3_DeletionConsistency ==
  [][(/\ lastOp' = "deleteSelection"
      /\ ghost \in DOMAIN ledger
      /\ ghost \notin DOMAIN ledger'
      /\ ledger[ghost].hasResult
      /\ DOMAIN shadow = DOMAIN ledger \ {ghost}
      /\ \A i \in DOMAIN shadow :
           /\ shadow[i].hasResult = ledger[i].hasResult
           /\ Val(shadow[i].winPL) = Val(ledger[i].winPL)
           /\ Val(shadow[i].placePL) = Val(ledger[i].placePL)) =>
       \A i \in DOMAIN ledger' :
         /\ i \in DOMAIN shadow'
         /\ Val(ledger'[i].winPL) = Val(shadow'[i].winPL)
         /\ OrZero(ledger'[i].runningWinPL) = OrZero(shadow'[i].runningWinPL)
         /\ Val(ledger'[i].placePL) = Val(shadow'[i].placePL)
         /\ Val(ledger'[i].runningPlacePL) = Val(shadow'[i].runningPlacePL)
         /\ ledger'[i].rowOrder = ledger[i].rowOrder]_vars

\* C11: every row with hasResult = true has winPL equal to the win-market
\* formula of its stored (result, winBsp) and, when it carries a placePL, placePL
\* equal to the place-market formula of its stored (result, placeBsp); and a
\* step that changes winPL or placePL of a row is a settlement that leaves the
\* row with a result.
C11_PLFunctionOfResult ==
  [][/\ \A i \in DOMAIN ledger' :
          LET r == ledger'[i] IN
          r.hasResult =>
            /\ r.winPL = CASE r.result = "WON" -> 100 - OrZero(r.winBsp)
                           [] r.result \in {"LOST", "PLACED"} -> 98
                           [] OTHER -> 0
            /\ Present(r.placePL) =>
                 r.placePL = CASE r.result \in {"WON", "PLACED"} /\ Present(r.placeBsp)
                                    -> 100 - r.placeBsp
                               [] r.result = "WON" -> 100
                               [] r.result = "LOST" -> 98
                               [] OTHER -> 0
     /\ \A i \in DOMAIN ledger \cap DOMAIN ledger' :
          (ledger'[i].winPL # ledger[i].winPL \/ ledger'[i].placePL # ledger[i].placePL)
            => /\ lastOp' \in {"updateSelectionResults", "uploadResultsFromCSV"}
               /\ ledger'[i].hasResult
               /\ ledger'[i].result # ""]_vars

\* the feed rows whose match key is the key of row i
RowsFor(L, feed, i) ==
  {k \in 1..Len(feed) :
     /\ feed[k].dateISO = L[i].dateISO
     /\ normalizeTime(feed[k].time) = normalizeTime(L[i].time)
     /\ normalizedHorse(feed[k].horse) = normalizedHorse(L[i].horse)}

\* result, prices and P/L of a row: what a settlement writes on the row itself
Settled(r) == <<r.hasResult, r.result, r.winBsp, r.winPL, r.placeBsp, r.placePL>>

\* C12: when the feed rows that match an unresulted selection carry no valid
\* Betfair SP, uploadResultsFromCSV leaves the selection as it was (hasResult
\* false, no result, no P/L), does not list it as unmatched, and the selection
\* is still unresulted for a later batch.
C12_NotSettledSkip ==
  \A feed \in SeqsUpTo(FeedRows, MaxBatch) :
    LET r == uploadResultsFromCSV(variant, ledger, feed) IN
    \A i \in DOMAIN ledger :
      (/\ ~ledger[i].hasResult
       /\ RowsFor(ledger, feed, i) # {}
       /\ \A k \in RowsFor(ledger, feed, i) : ~hasValid(feed[k].betfairSP)) =>
        /\ Settled(r.L[i]) = Settled(ledger[i])
        /\ i \notin r.unmatched
        /\ i \notin r.updated

\* the feed without its k-th data row
DropRow(feed, k) == SubSeq(feed, 1, k - 1) \o SubSeq(feed, k + 1, Len(feed))

\* feed row k has the match key of no unresulted selection
NoCandidate(L, feed, k) ==
  \A i \in DOMAIN L : ~L[i].hasResult => k \notin RowsFor(L, feed, i)

\* C13: a feed row whose key is the key of no unresulted selection changes no
\* field of any ledger row: the batch leaves the ledger as the batch without
\* that row leaves it, and a batch of such rows alone leaves the ledger unchanged.
C13_UnmatchedRowNoMutation ==
  \A feed \in SeqsUpTo(FeedRows, MaxBatch) :
    /\ \A k \in 1..Len(feed) :
         NoCandidate(ledger, feed, k) =>
           uploadResultsFromCSV(variant, ledger, feed).L
             = uploadResultsFromCSV(variant, ledger, DropRow(feed, k)).L
    /\ (\A k \in 1..Len(feed) : NoCandidate(ledger, feed, k)) =>
         uploadResultsFromCSV(variant, ledger, feed).L = ledger

\* a ledger and a feed in which one row has only a resulted selection under its
\* key while another row of the same feed settles a selection
C13_Witness ==
  \E feed \in SeqsUpTo(FeedRows, MaxBatch) : \E k \in 1..Len(feed) :
    /\ NoCandidate(ledger, feed, k)
    /\ \E i \in DOMAIN ledger : ledger[i].hasResult /\ k \in RowsFor(ledger, feed, i)
    /\ uploadResultsFromCSV(variant, ledger, feed).updated # {}

\* ------------------------------------------------- the report of one upload
\* the data rows of the answered feed that the response counts as a match: the
\* rows whose key is the key of a selection counted in updated
CountedRows ==
  {k \in 1..Len(report.feed) :
     \E i \in report.updated \cap DOMAIN ledger : k \in RowsFor(ledger, report.feed, i)}

\* the data rows of the answered feed that an entry of the response's unmatched
\* list names by date, time and horse
UnmatchedListedRows ==
  {k \in 1..Len(report.feed) :
     \E i \in report.unmatched \cap DOMAIN ledger :
       k \in RowsFor(ledger, report.feed, i)}

\* the data rows of the answered feed that the response's errors list by row
\* number
ErrorRows == {k \in 1..Len(report.feed) : k + 1 \in report.errors}

\* C14: the report of uploadResultsFromCSV accounts for every data row of the
\* feed: each row is counted as a match, listed as an unmatched feed row, or
\* listed in the row errors.
C14_ReportCompleteness ==
  report.status = 200 =>
    \A k \in 1..Len(report.feed) :
      k \in CountedRows \cup UnmatchedListedRows \cup ErrorRows

\* the data rows of a feed that carry a valid price for selection i
PricedRowsFor(L, feed, i) ==
  {k \in RowsFor(L, feed, i) : ~isBadRow(feed[k]) /\ hasValid(feed[k].betfairSP)}

\* result, winBsp and winPL of a row
WinValues(r) == <<r.result, r.winBsp, r.winPL>>

\* C15: when two feed rows of one batch have the same match key and both carry
\* a valid price, the selection is settled with result, winBsp and winPL of the
\* row that comes first in the feed (the values an upload of that row alone
\* gives); the later row does not overwrite them and is reported as an
\* unmatched feed row.
C15_FirstMatchWins ==
  [][(report = NoReport /\ report' # NoReport /\ report'.status = 200
      /\ report'.fault = NoFault)
     => \A i \in DOMAIN ledger :
          LET feed == report'.feed
              ks == PricedRowsFor(ledger, feed, i)
              first == CHOOSE k \in ks : \A j \in ks : k <= j
          IN (/\ ~ledger[i].hasResult
              /\ \A j \in DOMAIN ledger :
                   matchKey_P14(ledger[j]) = matchKey_P14(ledger[i]) => j = i
              /\ Cardinality(ks) >= 2)
             => /\ WinValues(ledger'[i])
                     = WinValues(uploadResultsFromCSV(variant, ledger,
                                                      <<feed[first]>>).L[i])
                /\ \A k \in ks \ {first} : k \in UnmatchedListedRows'
    ]_vars

\* C16: when the feed header lacks a required column, uploadResultsFromCSV
\* answers with an error for the whole batch and the ledger is the one before
\* the call: nothing is matched, counted, listed or written.
C16_FailFastSchema ==
  [][(report = NoReport /\ report' # NoReport
      /\ ~(RequiredColumns \subseteq report'.header))
     => /\ report'.status = 400
        /\ ledger' = ledger
        /\ report'.updated = {} /\ report'.unmatched = {} /\ report'.errors = {}
    ]_vars

\* a feed that would settle a selection was refused for its header
C16_Witness ==
  /\ report # NoReport
  /\ report.status = 400
  /\ ~(RequiredColumns \subseteq report.header)
  /\ \E i \in DOMAIN ledger :
       ~ledger[i].hasResult /\ PricedRowsFor(ledger, report.feed, i) # {}

updatedSystems(v, L, feed) ==
  {L[i].systemId : i \in uploadResultsFromCSV(v, L, feed).updated}

\* the systems whose recompute meets a store failure: the find of their
\* selections rejects, or a write to one of their rows does
failingSystems(v, L, feed, fault) ==
  (updatedSystems(v, L, feed) \cap {fault.find})
  \cup {L[i].systemId : i \in fault.lost \cap bulkIds(L, feed)}

\* C18: in a batch with accepted updates for two systems, if the recompute
\* (ledger read or write) fails for one of them, the settlements and running
\* totals of the other are still persisted and the failing system is reported
\* as failed.
C18_FailureIsolation ==
  [][(report = NoReport /\ report' # NoReport /\ headerOK(report'.header))
     => LET feed == report'.feed
            bad == failingSystems(variant, ledger, feed, report'.fault)
            good == updatedSystems(variant, ledger, feed) \ bad
            full == uploadResultsFromCSV(variant, ledger, feed).L
        IN (bad # {} /\ good # {})
           => /\ \A i \in DOMAIN ledger :
                   ledger[i].systemId \in good => ledger'[i] = full[i]
              /\ bad \subseteq report'.failed
    ]_vars

\* the rows a ledger holds for one system
SysRows(L, s) == [i \in SysIds(L, s) |-> L[i]]

\* C19: if persisting a system's settlements and recomputed running totals
\* fails part-way, that system's ledger ends in its pre-batch state: a system
\* whose rows are not those of the batch without the failure holds the rows it
\* had before the batch.
C19_NoPartialWrite ==
  [][(report = NoReport /\ report' # NoReport /\ headerOK(report'.header)
      /\ report'.fault # NoFault)
     => LET full == uploadResultsFromCSV(variant, ledger, report'.feed).L IN
        \A s \in Systems :
          SysRows(ledger', s) # SysRows(full, s)
          => SysRows(ledger', s) = SysRows(ledger, s)
    ]_vars

\* ------------------------------------------- two requests handled together
\* Node interleaves the handlers of two requests at their awaits: every store
\* read and every store write of part_014's updateSelectionResults,
\* deleteSelection and uploadResultsFromCSV is one step, and what a handler
\* holds between two awaits is its local state in conc.procs.
ConcProcs == {1, 2}

NoRow == NewRow(0, 0, "", "", "")

ConcRequests ==
  [kind : {"updateSelectionResults"}, id : 1..MaxRows, result : {"WON", "LOST"},
   feed : {<<>>}]
  \cup [kind : {"deleteSelection"}, id : 1..MaxRows, result : {""}, feed : {<<>>}]
  \cup [kind : {"uploadResultsFromCSV"}, id : {0}, result : {""},
        feed : {<<row>> : row \in {x \in FeedRows : hasValid(x.betfairSP)
                                                  /\ hasValid(x.betfairPlaceSP)}}]

\* the request handled alone, from its first await to its response
handle(L, req) ==
  CASE req.kind = "updateSelectionResults"
         -> updateSelectionResults_P14(L, req.id, req.result, 0)
    [] req.kind = "deleteSelection" -> deleteSelection(L, req.id)
    [] OTHER -> uploadResultsFromCSV_P14(L, req.feed).L

\* the systems whose rows a request reads or writes
touched(L, req) ==
  IF req.kind = "uploadResultsFromCSV"
  THEN {L[i].systemId : i \in updatedIds_P14(L, req.feed)}
  ELSE {L[i].systemId : i \in {req.id} \cap DOMAIN L}

StartOf(req) ==
  [req |-> req,
   pc |-> IF req.kind = "uploadResultsFromCSV" THEN "findCandidates" ELSE "findById",
   sel |-> NoRow, win |-> 0, plc |-> Null, subs |-> <<>>, snap |-> EmptyLedger,
   upd |-> {}]

\* the two requests arrive together
Begin ==
  /\ conc = NoConc
  /\ ops + 2 <= MaxOps
  /\ ops' = ops + 2
  /\ \E r1, r2 \in ConcRequests :
       /\ touched(ledger, r1) \cap touched(ledger, r2) # {}
       /\ conc' = [phase |-> "run", start |-> ledger,
                   procs |-> <<StartOf(r1), StartOf(r2)>>]
  /\ lastOp' = "concurrent"
  /\ UNCHANGED <<variant, ledger, nextId, retired, track, ghost, shadow, calc, report>>

Running(p) == conc.phase = "run" /\ conc.procs[p].pc # "done"

Goto(p, local) ==
  /\ conc' = [conc EXCEPT !.procs[p] = local]
  /\ UNCHANGED <<variant, nextId, retired, lastOp, ops, track, ghost, shadow, calc,
                 report>>

\* .find({ systemId, rowOrder: { $gt } }).sort({ rowOrder: 1 }).select(...): the
\* documents as they are when the find is answered
subsequentDocs(L, sel) ==
  LET seq == SortByRowOrder(L, {i \in SysIds(L, sel.systemId) :
                                  L[i].rowOrder > sel.rowOrder})
  IN [k \in 1..Len(seq) |->
        [id |-> seq[k], systemId |-> L[seq[k]].systemId,
         winPL |-> L[seq[k]].winPL, placePL |-> L[seq[k]].placePL]]

\* await SystemSelection.findById(id)
FindById(p) ==
  LET me == conc.procs[p] IN
  /\ Running(p) /\ me.pc = "findById"
  /\ ledger' = ledger
  /\ IF me.req.id \notin DOMAIN ledger
     THEN Goto(p, [me EXCEPT !.pc = "done"])
     ELSE Goto(p, [me EXCEPT !.sel = ledger[me.req.id],
                             !.pc = IF me.req.kind = "deleteSelection"
                                    THEN "delete" ELSE "findPrevious"])

\* await SystemSelection.find(previous rows): the running totals before the row
FindPrevious(p) ==
  LET me == conc.procs[p]
      sys == SysIds(ledger, me.sel.systemId)
  IN
  /\ Running(p) /\ me.pc = "findPrevious"
  /\ ledger' = ledger
  /\ IF me.req.kind = "updateSelectionResults"
     THEN LET prev == {i \in sys \ {me.req.id} :
                         ledger[i].rowOrder <= OrZero(me.sel.rowOrder)}
              winPL == calculateWinPL_P14(me.req.result, 0)
          IN Goto(p, [me EXCEPT
                        !.win = Sum([i \in prev |-> OrZero(ledger[i].winPL)], prev)
                                + winPL,
                        !.pc = "update"])
     ELSE LET prev == {i \in sys : ledger[i].rowOrder < me.sel.rowOrder}
              withPlace == {i \in prev : Present(ledger[i].placePL)}
              previousPlacePL ==
                Sum([i \in withPlace |-> OrZero(ledger[i].placePL)], withPlace)
          IN Goto(p, [me EXCEPT
                        !.win = Sum([i \in prev |-> OrZero(ledger[i].winPL)], prev),
                        !.plc = IF previousPlacePL > 0 \/ me.sel.placePL # Null
                                THEN previousPlacePL ELSE Null,
                        !.pc = IF me.subs = <<>> THEN "done" ELSE "updateSubsequent"])

\* await SystemSelection.findByIdAndUpdate(id, updateData); a row deleted in the
\* meantime gives null, and reading its rowOrder ends the handler with a 500
UpdateOne(p) ==
  LET me == conc.procs[p]
      id == me.req.id
  IN
  /\ Running(p) /\ me.pc = "update"
  /\ IF id \in DOMAIN ledger
     THEN /\ ledger' = [ledger EXCEPT
                          ![id].result = me.req.result,
                          ![id].winBsp = 0,
                          ![id].winPL = calculateWinPL_P14(me.req.result, 0),
                          ![id].runningWinPL = me.win,
                          ![id].hasResult = TRUE]
          /\ Goto(p, [me EXCEPT !.pc = "findSubsequent"])
     ELSE /\ ledger' = ledger
          /\ Goto(p, [me EXCEPT !.pc = "done"])

\* await SystemSelection.findByIdAndDelete(id)
DeleteOne(p) ==
  LET me == conc.procs[p] IN
  /\ Running(p) /\ me.pc = "delete"
  /\ ledger' = Remove(ledger, {me.req.id})
  /\ Goto(p, [me EXCEPT
                !.pc = IF me.sel.hasResult /\ me.sel.rowOrder # Null
                          /\ me.sel.rowOrder # Undef
                       THEN "findSubsequent" ELSE "done"])

\* await SystemSelection.find(subsequent rows)
FindSubsequent(p) ==
  LET me == conc.procs[p]
      docs == subsequentDocs(ledger, me.sel)
  IN
  /\ Running(p) /\ me.pc = "findSubsequent"
  /\ ledger' = ledger
  /\ Goto(p, [me EXCEPT
                !.subs = docs,
                !.pc = IF me.req.kind = "deleteSelection" THEN "findPrevious"
                       ELSE IF docs = <<>> THEN "done" ELSE "updateSubsequent"])

\* one pass of the loop over subsequentSelections, up to its
\* await findByIdAndUpdate(subsequent._id, ...); deleteSelection carries the
\* place total too
UpdateSubsequent(p) ==
  LET me == conc.procs[p]
      subsequent == Head(me.subs)
      place == me.req.kind = "deleteSelection"
      win == IF Present(subsequent.winPL) THEN me.win + subsequent.winPL ELSE me.win
      plc == IF place /\ Present(subsequent.placePL)
             THEN IF me.plc = Null
                  THEN LET prev == allPreviousWithPlace(ledger, subsequent.systemId,
                                                        Undef)
                       IN Sum([i \in prev |-> OrZero(ledger[i].placePL)], prev)
                  ELSE me.plc + subsequent.placePL
             ELSE me.plc
      id == subsequent.id
  IN
  /\ Running(p) /\ me.pc = "updateSubsequent"
  /\ ledger' = IF id \in DOMAIN ledger
               THEN [ledger EXCEPT ![id].runningWinPL = win,
                                   ![id].runningPlacePL =
                                     IF place /\ plc # Null THEN plc ELSE @]
               ELSE ledger
  /\ Goto(p, [me EXCEPT !.win = win, !.plc = plc, !.subs = Tail(me.subs),
                        !.pc = IF Tail(me.subs) = <<>> THEN "done"
                               ELSE "updateSubsequent"])

\* PHASE 2 to 5 of uploadResultsFromCSV: await find of the candidates, then the
\* matching of the feed against them
FindCandidates(p) ==
  LET me == conc.procs[p] IN
  /\ Running(p) /\ me.pc = "findCandidates"
  /\ ledger' = ledger
  /\ Goto(p, [me EXCEPT !.snap = ledger,
                        !.upd = updatedIds_P14(ledger, me.req.feed),
                        !.pc = IF updatedIds_P14(ledger, me.req.feed) = {}
                               THEN "done" ELSE "findSystemSelections"])

\* PHASE 6: await find of the system's selections, then the pass that fills
\* bulkOps.  The updates come from the candidates read before, winPL and
\* rowOrder of the other rows from this find.
FindSystemSelections(p) ==
  LET me == conc.procs[p]
      s == CHOOSE x \in {me.snap[i].systemId : i \in me.upd} : TRUE
      mixed == [i \in DOMAIN me.snap |->
                  IF i \in DOMAIN ledger
                  THEN [ledger[i] EXCEPT !.hasResult = me.snap[i].hasResult,
                                         !.dateISO = me.snap[i].dateISO,
                                         !.time = me.snap[i].time,
                                         !.horse = me.snap[i].horse]
                  ELSE me.snap[i]]
      seq == SortByRowOrder(ledger, SysIds(ledger, s))
      bulk == {k \in 1..Len(seq) : \E j \in 1..k : seq[j] \in me.upd}
  IN
  /\ Running(p) /\ me.pc = "findSystemSelections"
  /\ ledger' = ledger
  /\ Goto(p, [me EXCEPT
                !.snap = recomputeLoop(mixed, mixed, me.req.feed, seq, 1, 0, FALSE),
                !.subs = [k \in 1..Cardinality(bulk) |->
                            seq[Len(seq) - Cardinality(bulk) + k]],
                !.pc = "bulkWrite"])

\* PHASE 7: await bulkWrite(bulkOps): the $set of every operation on the row as
\* it is now; an operation on a row that is gone matches nothing
BulkWrite(p) ==
  LET me == conc.procs[p]
      ids == {me.subs[k] : k \in 1..Len(me.subs)} \cap DOMAIN ledger
  IN
  /\ Running(p) /\ me.pc = "bulkWrite"
  /\ ledger' = [i \in DOMAIN ledger |->
                  IF i \notin ids THEN ledger[i]
                  ELSE IF i \in me.upd
                  THEN [ledger[i] EXCEPT !.result = me.snap[i].result,
                                         !.hasResult = TRUE,
                                         !.winBsp = me.snap[i].winBsp,
                                         !.winPL = me.snap[i].winPL,
                                         !.runningWinPL = me.snap[i].runningWinPL]
                  ELSE [ledger[i] EXCEPT !.runningWinPL = me.snap[i].runningWinPL]]
  /\ Goto(p, [me EXCEPT !.pc = "done"])

NextConc ==
  \/ conc = NoConc /\ CreateSelection
  \/ conc = NoConc /\ CreateBulkSelections
  \/ conc = NoConc /\ UploadResultsFromCSV
  \/ Begin
  \/ \E p \in ConcProcs : FindById(p)
  \/ \E p \in ConcProcs : FindPrevious(p)
  \/ \E p \in ConcProcs : UpdateOne(p)
  \/ \E p \in ConcProcs : DeleteOne(p)
  \/ \E p \in ConcProcs : FindSubsequent(p)
  \/ \E p \in ConcProcs : UpdateSubsequent(p)
  \/ \E p \in ConcProcs : FindCandidates(p)
  \/ \E p \in ConcProcs : FindSystemSelections(p)
  \/ \E p \in ConcProcs : BulkWrite(p)

SpecConc == InitP14 /\ [][NextConc]_vars

\* C20: for every interleaving of the store reads and writes of two concurrent
\* operations on the same system (settlement batch, result edit, delete), the
\* final ledger is the ledger that handling the two requests one after the other
\* leaves, in one order or the other.
C20_Serializable ==
  (conc.phase = "run" /\ \A p \in ConcProcs : conc.procs[p].pc = "done")
  => LET r1 == conc.procs[1].req
         r2 == conc.procs[2].req
     IN \/ ledger = handle(handle(conc.start, r1), r2)
        \/ ledger = handle(handle(conc.start, r2), r1)

\* ------------------------------------------------- two concurrent creations
\* createSelection and uploadSelectionsFromCSV read the last rowOrder of the
\* system with one await and insert with another; Node may answer the findOne
\* of a second request between the two.  systemSelectionSchema declares no
\* unique index on (systemId, rowOrder), so an insert never fails on rowOrder.
InsertRequests ==
  {[kind |-> "createSelection", systemId |-> it.systemId, items |-> <<it>>] :
     it \in BatchItems}
  \cup {[kind |-> "uploadSelectionsFromCSV", systemId |-> items[1].systemId,
         items |-> items] :
          items \in {x \in SeqsUpTo(BatchItems, MaxBatch) :
                       \A k \in 1..Len(x) : x[k].systemId = x[1].systemId}}

BeginInsert ==
  /\ conc = NoConc
  /\ ops + 2 <= MaxOps
  /\ ops' = ops + 2
  /\ \E r1, r2 \in InsertRequests :
       conc' = [phase |-> "insert", start |-> ledger,
                procs |-> [p \in ConcProcs |->
                             [req |-> IF p = 1 THEN r1 ELSE r2, pc |-> "findOne",
                              rowOrder |-> 0, k |-> 1, ids |-> {}, at |-> 0]]]
  /\ lastOp' = "concurrent"
  /\ UNCHANGED <<variant, ledger, nextId, retired, track, ghost, shadow, calc, report>>

\* await SystemSelection.findOne({ systemId }).sort({ rowOrder: -1 }): createSelection
\* keeps rowOrder = last + 1 (or 1), uploadSelectionsFromCSV keeps
\* currentRowOrder = last (or 0)
FindLastSelection(p) ==
  LET me == conc.procs[p]
      s == me.req.systemId
      last == lastSelection(ledger, s)
  IN
  /\ conc.phase = "insert" /\ me.pc = "findOne"
  /\ Goto(p, [me EXCEPT
                !.rowOrder = IF me.req.kind = "createSelection"
                             THEN nextRowOrder(ledger, s)
                             ELSE IF last # Undef /\ ledger[last].rowOrder # Null
                                  THEN ledger[last].rowOrder ELSE 0,
                \* rows the two requests have inserted so far
                !.at = Cardinality(DOMAIN ledger) - Cardinality(DOMAIN conc.start),
                !.pc = "create"])
  /\ UNCHANGED ledger

\* the rowOrder a create is given: createSelection's const rowOrder;
\* uploadSelectionsFromCSV's currentRowOrder after `currentRowOrder += 1`.
\* Before it, a create that reads the maximum again at the insert.
rowOrderToInsert_fresh(L, me) == nextRowOrder(L, me.req.systemId)

rowOrderToInsert(L, me) ==
  IF me.req.kind = "createSelection" THEN me.rowOrder ELSE me.rowOrder + 1

\* await SystemSelection.create({ ..., rowOrder }): one createSelection, or one
\* pass of the loop of uploadSelectionsFromCSV (a rejected row is caught and the
\* loop goes on, currentRowOrder already incremented)
CreateOne(p) ==
  LET me == conc.procs[p]
      it == me.req.items[me.k]
      rowOrder == rowOrderToInsert(ledger, me)
  IN
  /\ conc.phase = "insert" /\ me.pc = "create"
  /\ ledger' = create(ledger, nextId, me.req.systemId, rowOrder, it.dateISO,
                      it.time, it.horse, it.dateOk)
  /\ nextId' = IF it.dateOk THEN nextId + 1 ELSE nextId
  /\ conc' = [conc EXCEPT !.procs[p] =
                [me EXCEPT !.rowOrder = IF me.req.kind = "createSelection"
                                        THEN @ ELSE rowOrder,
                           !.k = @ + 1,
                           !.ids = IF it.dateOk THEN @ \cup {nextId} ELSE @,
                           !.pc = IF me.k = Len(me.req.items) THEN "done"
                                  ELSE "create"]]
  /\ UNCHANGED <<variant, retired, lastOp, ops, track, ghost, shadow, calc, report>>

NextInsert ==
  \/ conc = NoConc /\ CreateSelection
  \/ BeginInsert
  \/ \E p \in ConcProcs : FindLastSelection(p)
  \/ \E p \in ConcProcs : CreateOne(p)

SpecInsert == InitP14 /\ [][NextInsert]_vars

\* C21: two creation requests for the same system whose max-rowOrder reads are
\* both answered before either inserts, and whose first rows the store accepts,
\* give those rows the same rowOrder: find-max-then-increment is not safe under
\* concurrent inserts.
C21_ConcurrentInsertsCollide ==
  (/\ conc.phase = "insert"
   /\ conc.procs[1].req.systemId = conc.procs[2].req.systemId
   /\ \A p \in ConcProcs : /\ conc.procs[p].pc # "findOne"
                           /\ conc.procs[p].at = 0
                           /\ conc.procs[p].req.items[1].dateOk
                           /\ conc.procs[p].k > 1)
  => \E i \in conc.procs[1].ids, j \in conc.procs[2].ids :
       /\ ledger[i].systemId = ledger[j].systemId
       /\ ledger[i].rowOrder = ledger[j].rowOrder

\* two rows of one system share a rowOrder after two interleaved creations
C21_Witness ==
  /\ conc.phase = "insert"
  /\ \A p \in ConcProcs : conc.procs[p].pc = "done" /\ conc.procs[p].at = 0
  /\ \E i \in conc.procs[1].ids, j \in conc.procs[2].ids :
       /\ ledger[i].systemId = ledger[j].systemId
       /\ ledger[i].rowOrder = ledger[j].rowOrder

\* ------------------------------------------------ what a concurrent reader sees
\* A reader's find may be answered between any two awaits of a handler, so
\* every reachable ledger of SpecConc is a ledger a reader can observe.
\* C22: no reader observes a system in which a request's change of a row (its
\* new winPL, or its deletion) is persisted while a later row of the system
\* still holds the runningWinPL it had before the request, although the request
\* changes it.
C22_NoVisiblePartialState ==
  conc.phase = "run" =>
    \A p \in ConcProcs :
      LET old == conc.start
          new == handle(old, conc.procs[p].req)
          persisted(i) ==
            \/ i \notin DOMAIN new /\ i \notin DOMAIN ledger
            \/ /\ i \in DOMAIN new /\ i \in DOMAIN ledger
               /\ new[i].winPL # old[i].winPL
               /\ ledger[i].winPL = new[i].winPL
      IN \A i \in DOMAIN old : \A j \in DOMAIN ledger \cap DOMAIN new :
           (/\ persisted(i)
            /\ old[j].systemId = old[i].systemId
            /\ old[j].rowOrder > old[i].rowOrder
            /\ new[j].runningWinPL # old[j].runningWinPL)
           => ledger[j].runningWinPL # old[j].runningWinPL

\* --------------------------------------------------- systems are independent
\* the ledger without the rows of the systems other than s
OnlySystem(L, s) == [i \in {x \in DOMAIN L : L[x].systemId = s} |-> L[i]]

\* no row of a system other than those of S differs between L and L2
OthersUntouched(L, L2, S) ==
  \A j \in DOMAIN L :
    L[j].systemId \notin S => (j \in DOMAIN L2 /\ L2[j] = L[j])

\* C23: updateSelectionResults and deleteSelection on a row of system S, and a
\* settlement batch that settles rows of the systems S, change no field of a row
\* of another system; the rowOrder a creation gives a row of S is the one it
\* gives when the ledger holds the rows of S alone.
C23_NoCrossSystemEffect ==
  /\ \A id \in DOMAIN ledger, result \in ResultInputs, winBsp \in WinBspInputs :
       OthersUntouched(ledger,
                       updateSelectionResults_P14(ledger, id, result, winBsp),
                       {ledger[id].systemId})
  /\ \A id \in DOMAIN ledger :
       OthersUntouched(ledger, deleteSelection(ledger, id), {ledger[id].systemId})
  /\ \A feed \in SeqsUpTo(FeedRows, MaxBatch) :
       \E r \in {uploadResultsFromCSV_P14(ledger, feed)} :
         OthersUntouched(ledger, r.L, {ledger[i].systemId : i \in r.updated})
  /\ \A s \in Systems :
       /\ nextRowOrder(ledger, s) = nextRowOrder(OnlySystem(ledger, s), s)
       /\ \A items \in SeqsUpTo({it \in BatchItems : it.systemId = s}, MaxBatch) :
            /\ uploadSelectionsFromCSV(OnlySystem(ledger, s), s, items, nextId).L
                 = OnlySystem(uploadSelectionsFromCSV(ledger, s, items, nextId).L, s)
            /\ createBulkSelections(OnlySystem(ledger, s), items, nextId).L
                 = OnlySystem(createBulkSelections(ledger, items, nextId).L, s)

\* two systems hold a row each, the other system's row carries a running total,
\* and a result edit and a settlement batch change the first system's row
C23_Witness ==
  \E id \in DOMAIN ledger, j \in DOMAIN ledger :
    /\ ledger[j].systemId # ledger[id].systemId
    /\ ledger[j].hasResult /\ Present(ledger[j].runningWinPL)
    /\ ledger[j].rowOrder >= ledger[id].rowOrder
    /\ updateSelectionResults_P14(ledger, id, "WON", 0)[id] # ledger[id]
    /\ \E feed \in SeqsUpTo(FeedRows, MaxBatch) :
         uploadResultsFromCSV_P14(ledger, feed).updated = {id}

\* ------------------------------------------------ one recompute per system
\* updates.push({ selectionId, systemId, ... }) of PHASE 4, in feed order
RECURSIVE updatesFrom(_, _, _)
updatesFrom(L, feed, k) ==
  IF k > Len(feed) THEN <<>>
  ELSE IF k \in acceptedRows_P14(L, feed)
  THEN LET id == entryOf(L, feed, matchKey_P14(feed[k]))
       IN <<[selectionId |-> id, systemId |-> L[id].systemId]>>
          \o updatesFrom(L, feed, k + 1)
  ELSE updatesFrom(L, feed, k + 1)

\* the keys of the Map updatesBySystem in insertion order: a key is set when
\* updatesBySystem.has(update.systemId.toString()) is false.
RECURSIVE groupKeys(_, _, _)
groupKeys(updates, k, keys) ==
  IF k > Len(updates) THEN keys
  ELSE IF \E n \in 1..Len(keys) : keys[n] = updates[k].systemId
  THEN groupKeys(updates, k + 1, keys)
  ELSE groupKeys(updates, k + 1, Append(keys, updates[k].systemId))

\* a Map keyed by the ObjectId itself, which no later update is identical to
updatesBySystem_byReference(updates) ==
  [k \in 1..Len(updates) |-> updates[k].systemId]

updatesBySystem(updates) == groupKeys(updates, 1, <<>>)

\* C24: within one uploadResultsFromCSV call every system with an accepted
\* update is read and recomputed exactly once, however many of its rows the
\* batch settles, and a system with no accepted update is not recomputed; the
\* pass leaves every row from the first settled one on with the sum of the
\* winPL of the system's rows up to it, in ascending rowOrder.
C24_OneRecomputePerSystem ==
  \A feed \in SeqsUpTo(FeedRows, MaxBatch) :
    \* PHASE 6 issues one find, sorted by rowOrder, and one pass per entry of
    \* updatesBySystem
    \E finds \in {updatesBySystem(updatesFrom(ledger, feed, 1))},
       r \in {uploadResultsFromCSV_P14(ledger, feed)} :
      \A s \in Systems :
        /\ Cardinality({n \in 1..Len(finds) : finds[n] = s})
             = IF \E i \in r.updated : ledger[i].systemId = s THEN 1 ELSE 0
        /\ \E seq \in {SortByRowOrder(r.L, {i \in DOMAIN r.L : r.L[i].systemId = s})} :
             \A n \in 1..Len(seq) :
               IF \E m \in 1..n : seq[m] \in r.updated
               THEN r.L[seq[n]].runningWinPL
                      = Sum([m \in 1..n |-> OrZero(r.L[seq[m]].winPL)], 1..n)
               ELSE r.L[seq[n]] = ledger[seq[n]]

\* a batch settles two rows of one system while the other system gets none
C24_Witness ==
  \E feed \in SeqsUpTo(FeedRows, MaxBatch) :
    \E r \in {uploadResultsFromCSV_P14(ledger, feed)} :
      /\ Cardinality(r.updated) = 2
      /\ \A i \in r.updated : ledger[i].systemId = 1
      /\ Len(updatesFrom(ledger, feed, 1)) = 2
      /\ updatesBySystem(updatesFrom(ledger, feed, 1)) = <<1>>

\* ------------------------------------------- the place boundary after a delete
\* row r holds no runningPlacePL when no row of its system at or before it holds
\* a placePL, and the sum of those placePL otherwise
PlaceBoundaryOK(L, r) ==
  LET bearing == {i \in DOMAIN L : /\ L[i].systemId = L[r].systemId
                                   /\ L[i].rowOrder <= L[r].rowOrder
                                   /\ Present(L[i].placePL)}
  IN IF bearing = {} THEN ~Present(L[r].runningPlacePL)
     ELSE L[r].runningPlacePL = Sum([i \in bearing |-> L[i].placePL], bearing)

\* C25: after deleteSelection of a resulted row d, from a ledger whose place
\* running totals are all in order, every remaining row after d has
\* runningPlacePL null exactly when no remaining row at or before it has a
\* placePL, and the sum of those placePL otherwise, whatever d's own placePL.
C25_PlaceBoundaryAfterDelete ==
  [][(/\ lastOp' = "deleteSelection"
      /\ \A r \in DOMAIN ledger : PlaceBoundaryOK(ledger, r))
     => \A d \in DOMAIN ledger \ DOMAIN ledger' :
          ledger[d].hasResult
          => \A r \in DOMAIN ledger' :
               (/\ ledger'[r].systemId = ledger[d].systemId
                /\ ledger'[r].rowOrder > ledger[d].rowOrder)
               => PlaceBoundaryOK(ledger', r)
    ]_vars

\* ------------------------------------------- administrative settlement (WON)
\* C26: updateSelectionResults on an existing selection with result WON and the
\* lay price 2.0 is accepted: the row holds result WON, winBsp 2.0,
\* winPL = 1 - 2.0, hasResult true and runningWinPL = the winPL of the earlier
\* rows of its system + (1 - 2.0).
C26_AdminSettleWinner ==
  \A id \in DOMAIN ledger :
    LET b == 200
        L2 == IF variant = "P14"
              THEN updateSelectionResults_P14(ledger, id, "WON", b)
              ELSE updateSelectionResults_SC(ledger, id, "WON", b, Undef)
        earlier == {i \in DOMAIN ledger : /\ ledger[i].systemId = ledger[id].systemId
                                          /\ ledger[i].rowOrder < ledger[id].rowOrder}
    IN /\ L2[id].result = "WON"
       /\ L2[id].winBsp = b
       /\ L2[id].winPL = 100 - b
       /\ L2[id].hasResult
       /\ L2[id].runningWinPL
            = Sum([i \in earlier |-> OrZero(ledger[i].winPL)], earlier) + (100 - b)

\* ------------------------------------------------ match-key normalization
\* Strings are sequences of one-character strings, so that trim, substring,
\* split and padStart are computed as normalizeTime computes them.
RECURSIVE trimStart(_)
trimStart(s) == IF s # <<>> /\ Head(s) = " " THEN trimStart(Tail(s)) ELSE s

RECURSIVE trimEnd(_)
trimEnd(s) ==
  IF s # <<>> /\ s[Len(s)] = " " THEN trimEnd(SubSeq(s, 1, Len(s) - 1)) ELSE s

\* String.prototype.trim
trim(s) == trimEnd(trimStart(s))

\* s.split(":")
RECURSIVE split(_, _, _)
split(s, k, part) ==
  IF k > Len(s) THEN <<part>>
  ELSE IF s[k] = ":" THEN <<part>> \o split(s, k + 1, <<>>)
  ELSE split(s, k + 1, Append(part, s[k]))

\* normalized.match(/^\d{1,2}:\d{2}:\d{2}$/)
hasSeconds(s) ==
  LET parts == split(s, 1, <<>>) IN
  /\ Len(parts) = 3
  /\ Len(parts[1]) \in {1, 2} /\ Len(parts[2]) = 2 /\ Len(parts[3]) = 2
  /\ \A n \in 1..3 : \A k \in 1..Len(parts[n]) :
       parts[n][k] \in {"0", "1", "2", "3", "4", "5", "9"}

\* part.padStart(2, "0")
padStart2(part) ==
  IF Len(part) >= 2 THEN part
  ELSE IF Len(part) = 1 THEN <<"0">> \o part ELSE <<"0", "0">>

normalizeTimeChars(timeStr) ==
  IF timeStr = <<>> THEN <<>>
  ELSE LET trimmed == trim(timeStr)
           \* normalized.substring(0, 5)
           normalized == IF hasSeconds(trimmed)
                         THEN SubSeq(trimmed, 1, IF Len(trimmed) < 5 THEN Len(trimmed)
                                                 ELSE 5)
                         ELSE trimmed
           parts == split(normalized, 1, <<>>)
       IN IF Len(parts) = 2
          THEN padStart2(parts[1]) \o <<":">> \o padStart2(parts[2])
          ELSE normalized

\* String.prototype.toLowerCase on the letters of the model
toLowerCase(s) ==
  [k \in 1..Len(s) |->
     CASE s[k] = "D" -> "d" [] s[k] = "A" -> "a" [] s[k] = "N" -> "n"
       [] s[k] = "C" -> "c" [] s[k] = "E" -> "e" [] s[k] = "R" -> "r"
       [] OTHER -> s[k]]

\* horse.toLowerCase().trim()
normalizedHorseChars(horse) == trim(toLowerCase(horse))

\* `${dateISO}|${normalizedTime}|${normalizedHorse}`
matchKeyChars(dateISO, time, horse) ==
  dateISO \o <<"|">> \o normalizeTimeChars(time) \o <<"|">>
  \o normalizedHorseChars(horse)

\* the inputs: a time of the form H:MM, HH:MM, H:MM:SS or HH:MM:SS, and a
\* horse name in lower case, in upper case or capitalised, with or without
\* blanks around it
DateChars == {<<"2", "0", "2", "5", "-", "1", "2", "-", "1", "0">>,
              <<"2", "0", "2", "5", "-", "1", "2", "-", "1", "1">>}

TimeForms ==
  [h : {<<"9">>, <<"0", "9">>, <<"1", "4">>},
   m : {<<"3", "0">>, <<"0", "5">>},
   s : {<<>>, <<"0", "0">>, <<"5", "9">>}]
HorseForms ==
  [name : {<<"d", "a", "n", "c", "e", "r">>, <<"r", "a", "c", "e", "r">>},
   style : {"lower", "upper", "capital"},
   pad : {<<>>, <<" ">>}]

TimeOf(t) == t.h \o <<":">> \o t.m \o (IF t.s = <<>> THEN <<>> ELSE <<":">> \o t.s)
\* a name as the feed or an administrator spells it
Styled(name, style) ==
  [k \in 1..Len(name) |->
     IF style = "upper" \/ (style = "capital" /\ k = 1)
     THEN CASE name[k] = "d" -> "D" [] name[k] = "a" -> "A" [] name[k] = "n" -> "N"
            [] name[k] = "c" -> "C" [] name[k] = "e" -> "E" [] name[k] = "r" -> "R"
     ELSE name[k]]

HorseOf(h) == h.pad \o Styled(h.name, h.style) \o h.pad

\* the two-digit-hour HH:MM form of a time
HHMM(t) == (IF Len(t.h) = 1 THEN <<"0">> \o t.h ELSE t.h) \o <<":">> \o t.m

InitNorm ==
  /\ variant = "P14"
  /\ ledger = EmptyLedger
  /\ nextId = 1
  /\ retired = {}
  /\ lastOp = NoOp
  /\ ops = 0
  /\ track = FALSE
  /\ ghost = 0
  /\ shadow = EmptyLedger
  /\ calc \in [fn : {"none"}, t : TimeForms, horse : HorseForms, date : DateChars,
               out : {<<>>}, twice : {<<>>}]
  /\ report = NoReport
  /\ conc = NoConc

\* normalizeTime(time), and normalizeTime of what it returned
NormalizeTime ==
  /\ calc.fn = "none"
  /\ \E out \in {normalizeTimeChars(TimeOf(calc.t))} :
       calc' = [calc EXCEPT !.fn = "normalizeTime", !.out = out,
                            !.twice = normalizeTimeChars(out)]
  /\ UNCHANGED <<variant, ledger, nextId, retired, lastOp, ops, track, ghost, shadow,
               report, conc>>

NormalizeHorse ==
  /\ calc.fn = "none"
  /\ calc' = [calc EXCEPT !.fn = "normalizedHorse",
                          !.out = normalizedHorseChars(HorseOf(calc.horse))]
  /\ UNCHANGED <<variant, ledger, nextId, retired, lastOp, ops, track, ghost, shadow,
               report, conc>>

\* the key of a selection (calc) against the key of a feed row (t2, h2, d2):
\* selectionMap.get(matchKey)
MatchKeys ==
  /\ calc.fn = "none"
  /\ \E t2 \in TimeForms, h2 \in HorseForms, d2 \in DateChars :
       calc' = [fn |-> "match", t |-> calc.t, horse |-> calc.horse,
                date |-> calc.date, t2 |-> t2, horse2 |-> h2, date2 |-> d2,
                out |-> matchKeyChars(calc.date, TimeOf(calc.t), HorseOf(calc.horse))
                        = matchKeyChars(d2, TimeOf(t2), HorseOf(h2)),
                twice |-> <<>>]
  /\ UNCHANGED <<variant, ledger, nextId, retired, lastOp, ops, track, ghost, shadow,
               report, conc>>

NextNorm ==
  \/ NormalizeTime
  \/ NormalizeHorse
  \/ MatchKeys

SpecNorm == InitNorm /\ [][NextNorm]_vars

\* C27: normalizeTime gives the two-digit-hour HH:MM form, seconds removed, for
\* every time of the forms H:MM, HH:MM, H:MM:SS and HH:MM:SS, and is
\* idempotent; the horse name is compared lower-cased and trimmed; a feed row
\* and a selection match exactly when their dates, their times in HH:MM form
\* and their lower-cased, trimmed horse names are equal.
C27_MatchKeyNormalization ==
  /\ calc.fn = "normalizeTime" => (calc.out = HHMM(calc.t) /\ calc.twice = calc.out)
  /\ calc.fn = "normalizedHorse" => calc.out = calc.horse.name
  /\ calc.fn = "match" =>
       (calc.out <=> (/\ calc.date = calc.date2
                      /\ HHMM(calc.t) = HHMM(calc.t2)
                      /\ calc.horse.name = calc.horse2.name))

\* ----------------------------------------------------------- result derivation
\* the systems whose place market the results upload settles: "System 1" in
\* selectionController.js (isSystem1), none in part_014, which reads neither the
\* place price nor the place lay return of the feed
runsPlaceMarket(v, s) == v = "SC" /\ s = System1

C29_CandidatesAccounted ==
  [][(report = NoReport /\ report' # NoReport /\ report'.status = 200
      /\ report'.fault = NoFault)
     => \A i \in DOMAIN ledger :
          LET feed == report'.feed
              rows == RowsFor(ledger, feed, i)
              priced == PricedRowsFor(ledger, feed, i)
              settled == /\ ledger'[i].hasResult
                         /\ priced # {}
                         /\ i \notin report'.unmatched
              unpriced == /\ ledger'[i] = ledger[i]
                          /\ rows # {} /\ priced = {}
                          /\ i \notin report'.unmatched
              listed == /\ ledger'[i] = ledger[i]
                        /\ rows = {}
                        /\ i \in report'.unmatched
          IN (/\ ~ledger[i].hasResult
              /\ \E k \in 1..Len(feed) : feed[k].dateISO = ledger[i].dateISO)
             => (settled \/ unpriced \/ listed)
    ]_vars

\* ------------------------------------------------- deleting an unresulted row
\* C30: deleteSelection on a row with hasResult = false removes that row and
\* leaves every field of every other row of every system as it was.
C30_DeleteUnresultedFrame ==
  \A d \in DOMAIN ledger :
    ~ledger[d].hasResult =>
      \E L2 \in {deleteSelection(ledger, d)} :
        /\ DOMAIN L2 = DOMAIN ledger \ {d}
        /\ \A j \in DOMAIN L2 : L2[j] = ledger[j]

\* an unresulted row is deleted from before a resulted row of its system
C30_Witness ==
  \E d \in DOMAIN ledger, j \in DOMAIN ledger :
    /\ ~ledger[d].hasResult
    /\ ledger[j].systemId = ledger[d].systemId
    /\ ledger[j].rowOrder > ledger[d].rowOrder
    /\ ledger[j].hasResult /\ Present(ledger[j].runningWinPL)
    /\ DOMAIN deleteSelection(ledger, d) = {j}

====
